---- MODULE Spec2Model ----
(***************************************************************************)
(* myfind: one forked worker process per requested filename, every worker  *)
(* walking the same directory and printing its matches to the inherited    *)
(* standard output.  The module models five of the repository's programs:  *)
(*   "myfind"   src/myfind.cpp            semaphore used as completion      *)
(*                                        counter, children end in _exit   *)
(*   "guarded"  src/unnamed/part_003      second program (lines 150-308):  *)
(*                                        semaphore around every print,    *)
(*                                        waitpid once per filename        *)
(*   "plain"    src/unnamed/part_001      no validation, no try/catch,     *)
(*                                        wait loop                        *)
(*   "tempfile" src/unnamed/part_003      first program (lines 1-148):     *)
(*                                        every child writes a file in     *)
(*                                        /tmp, main copies the files      *)
(*   "part_002" src/unnamed/part_002      semaphore posted by the children, *)
(*                                        waitpid once per filename        *)
(* Process 0 is main (the dispatcher); process w in 1..Len(filenames) is   *)
(* the child forked for filenames[w], and w is also its pid.               *)
(***************************************************************************)
EXTENDS Integers, Sequences, FiniteSets, TLC

\* ---------------------------------------------------------------- bounds
MaxTargets == 2      \* at most this many filenames on the command line
MaxNameLen == 2     \* names for the matcher have at most this many characters
BufSize == 32        \* capacity of a process's stdio buffer, in characters

\* ------------------------------------------------------------- variables
VARIABLES
    variant,                 \* which program runs
    rootValid,               \* fs::exists(searchPath) && fs::is_directory
    recursiveSearchEnabled,  \* -R
    caseInsensetiveSearch,   \* -i
    tree,                    \* the directory below searchPath, in pre-order
    filenames,               \* argv + optind .. argv + argc
    ttyOut,                  \* stdout is a terminal (line buffered) or not
    semShared,               \* outcome of using the semaphore after fork
    mpc, mi, mj, status,     \* main: position, spawn index, wait count, exit
    wpc, pos, found, pend,   \* worker: position, iterator, found flag, line
    buf,                     \* every process's stdio buffer of stdout
    semaphore,               \* every process's copy of the sem_t value
    holds,                   \* process is between sem_wait and sem_post
    reaped,                  \* children collected by wait/waitpid
    events,                  \* history: events each worker has emitted
    out,                     \* the shared stdout stream (tokens written)
    errlog,                  \* history: diagnostics each process wrote
    tmpWritable,             \* std::ofstream can create files in /tmp
    tempFiles, mk,           \* main: files of the children, copy index
    tmp,                     \* the file /tmp/myfind_<pid>.log of every child
    nforks,                  \* history: calls of fork() per filename
    cwdGone,                 \* searchPath is "." and getcwd() fails (ENOENT)
    posts                    \* history: calls of sem_post at the end of a search

inputs == <<variant, rootValid, recursiveSearchEnabled, caseInsensetiveSearch,
            tree, filenames, ttyOut, semShared, tmpWritable, cwdGone>>
mainvars == <<mpc, mi, mj, status>>
tempvars == <<tempFiles, mk, tmp>>
vars == <<variant, rootValid, recursiveSearchEnabled, caseInsensetiveSearch,
          tree, filenames, ttyOut, semShared, mpc, mi, mj, status,
          wpc, pos, found, pend, buf, semaphore, holds, reaped, events,
          out, errlog, tmpWritable, tempFiles, mk, tmp, nforks, cwdGone, posts>>

\* --------------------------------------------------------------- helpers
N == Len(filenames)
Workers == 1..N
Procs == 0..N

SeqsUpTo(S, n) == UNION {[1..k -> S] : k \in 0..n}

\* file names are sequences of characters
NameA == <<"a">>
NameUpperA == <<"A">>
NameB == <<"b">>
NameSub == <<"s">>

\* the search path given on the command line and the working directory
\* (a path is the sequence of its components, <<"/">> being the root directory)
RootDir == <<"/">>
searchPath == IF cwdGone THEN <<<<".">>>> ELSE <<RootDir, <<"r", "o", "o", "t">>>>
Cwd == <<RootDir, <<"c", "w", "d">>>>

\* ----------------------------------------------------- matcher (pure)
\* the letters of ASCII
Upper == <<"A", "B", "C", "D", "E", "F", "G", "H", "I", "J", "K", "L", "M",
           "N", "O", "P", "Q", "R", "S", "T", "U", "V", "W", "X", "Y", "Z">>
Lower == <<"a", "b", "c", "d", "e", "f", "g", "h", "i", "j", "k", "l", "m",
           "n", "o", "p", "q", "r", "s", "t", "u", "v", "w", "x", "y", "z">>

\* tolower in the "C" locale (the program never calls setlocale): an upper
\* case letter gives its lower case letter, any other character itself.
\* ToLowerBitOr is the folding c | 0x20, which also moves "[" to "{".
ToLowerBitOr(c) ==
    IF c = "[" THEN "{"
    ELSE IF \E i \in 1..26 : Upper[i] = c
         THEN Lower[CHOOSE i \in 1..26 : Upper[i] = c]
    ELSE c
ToLower(c) ==
    IF \E i \in 1..26 : Upper[i] = c
    THEN Lower[CHOOSE i \in 1..26 : Upper[i] = c]
    ELSE c

\* strcasecmp: 0 when the two strings are equal after folding, else nonzero
strcasecmp(s1, s2) ==
    IF Len(s1) = Len(s2) /\ \A i \in 1..Len(s1) : ToLower(s1[i]) = ToLower(s2[i])
    THEN 0 ELSE 1

isMatchingFilename(file1, file2, ci) ==
    IF ci THEN strcasecmp(file1, file2) = 0
    ELSE file1 = file2

\* ---------------------------------------------------------- walker (pure)
\* A tree is the pre-order list of the entries below the root.  An entry
\* has a name, a type ("file", "dir", "other"), a depth (1 = direct child)
\* and, for a directory, what opening it gives: "ok", "denied" (EACCES) or
\* "ioerr" (any other error).
Entry(n, t, d, a) == [name |-> n, type |-> t, depth |-> d, access |-> a]

WellFormed(t) ==
    \A i \in 1..Len(t) :
        /\ t[i].depth >= 1
        /\ (i = 1 => t[i].depth = 1)
        /\ (i > 1 => t[i].depth <= t[i-1].depth + 1)
        /\ (i > 1 /\ t[i].depth = t[i-1].depth + 1 => t[i-1].type = "dir")
        /\ (t[i].type # "dir" => t[i].access = "ok")

\* fs::directory_iterator: the direct children, none of them opened
FlatWalk(t) == SelectSeq([i \in 1..Len(t) |-> i], LAMBDA i : t[i].depth = 1)

\* fs::recursive_directory_iterator with skip_permission_denied.  Result:
\* the indices yielded, and whether the increment after the last one throws.
\* skip = 0, or the depth of the denied directory whose subtree is skipped.
RECURSIVE RecWalkFrom(_, _, _, _)
RecWalkFrom(t, i, skip, acc) ==
    IF i > Len(t) THEN [items |-> acc, throws |-> FALSE]
    ELSE IF skip > 0 /\ t[i].depth > skip THEN RecWalkFrom(t, i + 1, skip, acc)
    ELSE IF t[i].type = "dir" /\ t[i].access = "ioerr"
         THEN [items |-> Append(acc, i), throws |-> TRUE]
    ELSE IF t[i].type = "dir" /\ t[i].access = "denied"
         THEN RecWalkFrom(t, i + 1, t[i].depth, Append(acc, i))
    ELSE RecWalkFrom(t, i + 1, 0, Append(acc, i))

RecursiveWalk(t) == RecWalkFrom(t, 1, 0, <<>>)

Walk(t, rec) == IF rec THEN RecursiveWalk(t)
                ELSE [items |-> FlatWalk(t), throws |-> FALSE]

\* entry.path(): searchPath followed by the names of the ancestors and the
\* entry's own name
RECURSIVE ParentOf(_, _, _)
ParentOf(t, i, j) ==
    IF j = 0 THEN 0
    ELSE IF t[j].depth = t[i].depth - 1 THEN j
    ELSE ParentOf(t, i, j - 1)

RECURSIVE RelPath(_, _)
RelPath(t, i) ==
    IF t[i].depth = 1 THEN <<t[i].name>>
    ELSE Append(RelPath(t, ParentOf(t, i, i - 1)), t[i].name)

EntryPath(t, i) == searchPath \o RelPath(t, i)

\* fs::absolute: a path that starts at "/" is returned as it is, any other
\* path is appended to current_path(), which throws when getcwd() fails
AbsoluteThrows(p) == cwdGone /\ ~(Len(p) > 0 /\ p[1] = RootDir)
Absolute(p) == IF Len(p) > 0 /\ p[1] = RootDir THEN p ELSE Cwd \o p


\* ------------------------------------------------- what the programs differ in
Variants == {"myfind", "guarded", "plain", "tempfile", "part_002"}

ValidatesRoot(v) == v \in {"myfind", "guarded", "tempfile", "part_002"}
CatchesWalkError(v) == v \in {"myfind", "guarded", "tempfile", "part_002"}
EmitsNotFound(v) == v \in {"myfind", "guarded", "tempfile", "part_002"}
RegularOnly(v) == v = "plain"
GuardsOutput(v) == v = "guarded"
PostsCompletion(v) == v \in {"myfind", "part_002"}
ExitFlushes(v) == v \in {"guarded", "plain", "tempfile", "part_002"}
FlushesEachLine(v) == v = "plain"
PrintsAbsolute(v) == v \in {"myfind", "guarded", "tempfile", "part_002"}
UsesSemaphore(v) == v \in {"myfind", "guarded", "part_002"}
ReportsForkFailure(v) == v \in {"myfind", "guarded", "tempfile", "part_002"}
WritesTempFile(v) == v = "tempfile"
\* every program ends the child behind its search (_exit(0), return 0 or
\* exit(0) in the body of the loop); ChildFallsThrough is a loop body
\* without that statement, where the child calls fork() for the next filename
ChildFallsThrough(v) == FALSE
ChildLeaves(v) == v \in Variants
SemInit(v) == IF v = "guarded" THEN 1 ELSE 0
JoinKind(v) == CASE v = "myfind" -> "sem_wait"
                 [] v \in {"guarded", "part_002"} -> "waitpid"
                 [] OTHER -> "wait"

EXIT_SUCCESS == "EXIT_SUCCESS"
EXIT_FAILURE == "EXIT_FAILURE"

\* ------------------------------------------------------------ events, lines
NoEvent == [kind |-> "None", path |-> <<>>]
FoundEvent(p) == [kind |-> "Found", path |-> p]
NotFoundEvent(p) == [kind |-> "NotFound", path |-> p]
WalkErrorEvent(p) == [kind |-> "WalkError", path |-> p]
\* the part of a line that operator<< has written when fs::absolute throws
PartialEvent(ev) == [kind |-> "Partial", path |-> ev.path, of |-> ev.kind]

\* the string literals ": " and ": Not found in "
ColonSpace == <<":", " ">>
NotFoundIn == <<":", " ", "N", "o", "t", " ", "f", "o", "u", "n", "d", " ", "i", "n", " ">>

\* "Error accessing " and the text of e.what()
ErrorAccessing == <<"E", "r", "r", "o", "r", " ", "a", "c", "c", "e", "s", "s", "i", "n", "g", " ">>
What == <<"e.what()">>

\* the characters of a path: components joined by "/"
RECURSIVE PathText(_)
PathText(p) ==
    IF Len(p) = 0 THEN <<>>
    ELSE IF Len(p) = 1 THEN p[1]
    ELSE IF p[1] = RootDir THEN <<"/">> \o PathText(Tail(p))
    ELSE p[1] \o <<"/">> \o PathText(Tail(p))

\* operator<< of a fs::path writes it quoted
Quoted(p) == <<"\"">> \o PathText(p) \o <<"\"">>

\* the line a worker prints for an event: getpid() << ": " << filename << ...
\* (the directory in "Error accessing" is a std::string and is not quoted)
Render(v, w, target, ev) ==
    LET shown == IF PrintsAbsolute(v) THEN Absolute(ev.path) ELSE ev.path
    IN  IF ev.kind = "Partial"
        THEN <<ToString(w)>> \o ColonSpace \o target
                 \o (IF ev.of = "Found" THEN ColonSpace ELSE NotFoundIn)
        ELSE IF ev.kind = "Found"
        THEN <<ToString(w)>> \o ColonSpace \o target \o ColonSpace
                 \o Quoted(shown) \o <<"\n">>
        ELSE IF ev.kind = "WalkError"
        THEN ErrorAccessing \o PathText(ev.path) \o ColonSpace \o What \o <<"\n">>
        ELSE <<ToString(w)>> \o ColonSpace \o target \o NotFoundIn
                 \o Quoted(shown) \o <<"\n">>

\* the characters of line n of worker w, as they travel through buffer and
\* stream: <<w, n, k>> stands for character k of that line
LineTokens(w, n, len) == [k \in 1..len |-> <<w, n, k>>]

\* stdio: put whole lines into the buffer b of stdout.  A terminal is line
\* buffered (the newline flushes), std::endl flushes, otherwise the buffer is
\* written each time it is full and one more character arrives.
StdioPut(b, line, tty, flushNow) ==
    LET all == b \o line
        full == IF Len(all) = 0 THEN 0 ELSE BufSize * ((Len(all) - 1) \div BufSize)
    IN  IF tty \/ flushNow THEN [buf |-> <<>>, written |-> all]
        ELSE [buf |-> SubSeq(all, full + 1, Len(all)),
              written |-> SubSeq(all, 1, full)]

\* The semaphore is a global sem_t initialised with pshared = 0 and then used
\* on both sides of fork().  The child operates on a copy of the object, and
\* POSIX leaves the result of sem_wait/sem_post on a copy of a sem_t undefined.
\* semShared draws the outcome: FALSE, every process counts in its own copy
\* (a sem_t that lives in the process's memory); TRUE, all copies name one
\* counter (a sem_t that is a handle of a system object).
\* SemOf(p) is the counter that process p operates on.
SemOf(p) == IF semShared THEN 0 ELSE p

\* a file that does not exist, and an existing file with its content
NoFile == [exists |-> FALSE, data |-> <<>>]
FileWith(d) == [exists |-> TRUE, data |-> d]

\* ------------------------------------------------------------------- inputs
TreeScenario == << Entry(NameA, "file", 1, "ok"), Entry(NameSub, "dir", 1, "ok"),
                   Entry(NameA, "file", 2, "ok"), Entry(NameB, "file", 1, "ok") >>
TreeBroken == << Entry(NameSub, "dir", 1, "ioerr"), Entry(NameUpperA, "file", 1, "ok") >>
TreeDenied == << Entry(NameSub, "dir", 1, "denied"), Entry(NameB, "file", 2, "ok"),
                 Entry(NameA, "dir", 1, "ok") >>
Trees == {TreeScenario, TreeBroken, TreeDenied}
TargetNames == {NameA, NameB}

\* names for the matcher: every name of at most MaxNameLen characters over
\* MatchChars ("[" and "{" are no letters and differ like "A" and "a" do),
\* and the two names of the scenario
MatchChars == {"a", "A", "b", "[", "{"}
ReportUpper == <<"R", "e", "p", "o", "r", "t", ".", "T", "X", "T">>
ReportLower == <<"r", "e", "p", "o", "r", "t", ".", "t", "x", "t">>
MatchNames == (SeqsUpTo(MatchChars, MaxNameLen) \ {<<>>}) \cup {ReportUpper, ReportLower}

\* the state of the program when main starts
InitState ==
    /\ mpc = "validate" /\ mi = 1 /\ mj = 0 /\ status = "none"
    /\ wpc = [w \in Workers |-> "unborn"]
    /\ pos = [w \in Workers |-> 0]
    /\ found = [w \in Workers |-> FALSE]
    /\ pend = [w \in Workers |-> NoEvent]
    /\ buf = [p \in Procs |-> <<>>]
    /\ semaphore = [p \in Procs |-> SemInit(variant)]
    /\ holds = [p \in Procs |-> FALSE]
    /\ reaped = {}
    /\ events = [w \in Workers |-> <<>>]
    /\ out = <<>>
    /\ errlog = [p \in Procs |-> <<>>]
    /\ tempFiles = <<>> /\ mk = 1
    /\ tmp = [w \in Workers |-> NoFile]
    /\ nforks = [w \in Workers |-> 0]
    /\ posts = [w \in Workers |-> 0]

Init ==
    /\ variant \in Variants
    /\ rootValid \in BOOLEAN
    /\ recursiveSearchEnabled \in BOOLEAN
    /\ caseInsensetiveSearch \in BOOLEAN
    /\ tree \in Trees \cup {<<>>}
    /\ cwdGone \in BOOLEAN
    /\ IF cwdGone THEN rootValid /\ tree = <<>>
       ELSE (tree = <<>>) = (~rootValid)
    /\ filenames \in SeqsUpTo(TargetNames, MaxTargets)
    /\ ttyOut \in BOOLEAN
    /\ semShared \in BOOLEAN
    /\ (~UsesSemaphore(variant) => ~semShared)
    /\ tmpWritable \in BOOLEAN
    /\ (~WritesTempFile(variant) => tmpWritable)
    /\ InitState

\* a run of one filename against a directory that holds one regular file,
\* both names drawn from MatchNames, for the matcher (the removed working
\* directory holds no file)
InitMatch ==
    /\ variant \in Variants
    /\ rootValid = TRUE
    /\ recursiveSearchEnabled = FALSE
    /\ caseInsensetiveSearch \in BOOLEAN
    /\ cwdGone \in BOOLEAN
    /\ IF cwdGone THEN tree = <<>>
       ELSE \E e \in MatchNames : tree = <<Entry(e, "file", 1, "ok")>>
    /\ \E t \in MatchNames : filenames = <<t>>
    /\ ttyOut = TRUE
    /\ semShared = UsesSemaphore(variant)
    /\ tmpWritable = TRUE
    /\ InitState


\* --------------------------------------------------------------------- main
\* the check of the search path; a program that has none goes on to fork
Validate ==
    /\ mpc = "validate"
    /\ IF ValidatesRoot(variant) /\ ~rootValid
       THEN /\ mpc' = "returned"
            /\ status' = EXIT_FAILURE
            /\ errlog' = [errlog EXCEPT ![0] = Append(@, "InvalidDirectory")]
       ELSE /\ mpc' = IF N = 0 THEN "wait" ELSE "spawn"
            /\ UNCHANGED <<status, errlog>>
    /\ UNCHANGED <<inputs, posts, tempvars, nforks, mi, mj, wpc, pos, found, pend, buf, semaphore,
                   holds, reaped, events, out>>

\* the range-for over filenames: behind the last filename main goes to the
\* wait loop.  AfterForkStopsEarly is the loop that leaves out the last
\* filename, kept to show what the fan-out shape excludes.
AfterForkStopsEarly == IF mi >= N - 1 THEN "wait" ELSE "spawn"
AfterFork == IF mi = N THEN "wait" ELSE "spawn"

\* fork() returned the child's pid: the child is a copy of main (its stdio
\* buffer and its semaphore included) and enters the search
ForkChild ==
    /\ mpc = "spawn"
    /\ mi <= N
    /\ wpc' = [wpc EXCEPT ![mi] = IF WritesTempFile(variant) THEN "open" ELSE "walk"]
    /\ buf' = [buf EXCEPT ![mi] = buf[0]]
    /\ semaphore' = [semaphore EXCEPT ![mi] = semaphore[0]]
    /\ nforks' = [nforks EXCEPT ![mi] = @ + 1]
    /\ tempFiles' = IF WritesTempFile(variant) THEN Append(tempFiles, mi)
                    ELSE tempFiles
    /\ mi' = mi + 1
    /\ mpc' = AfterFork
    /\ UNCHANGED <<inputs, posts, mk, tmp, mj, status, pos, found, pend, holds, reaped,
                   events, out, errlog>>

\* fork() returned -1: main reports it and goes on with the next filename
ForkFails ==
    /\ mpc = "spawn"
    /\ mi <= N
    /\ wpc' = [wpc EXCEPT ![mi] = "nofork"]
    /\ IF GuardsOutput(variant)
       THEN /\ mpc' = "m_acquire"
            /\ UNCHANGED <<mi, errlog>>
       ELSE /\ errlog' = IF ReportsForkFailure(variant)
                         THEN [errlog EXCEPT ![0] = Append(@, "FailedToCreateProcess")]
                         ELSE errlog
            /\ mi' = mi + 1
            /\ mpc' = AfterFork
    /\ nforks' = [nforks EXCEPT ![mi] = @ + 1]
    /\ UNCHANGED <<inputs, posts, tempvars, mj, status, pos, found, pend, buf, semaphore,
                   holds, reaped, events, out>>

\* part_003: sem_wait, the message to std::cerr, sem_post around a failed fork
MainAcquire ==
    /\ mpc = "m_acquire"
    /\ semaphore[SemOf(0)] > 0
    /\ semaphore' = [semaphore EXCEPT ![SemOf(0)] = @ - 1]
    /\ holds' = [holds EXCEPT ![0] = TRUE]
    /\ mpc' = "m_print"
    /\ UNCHANGED <<inputs, posts, tempvars, nforks, mi, mj, status, wpc, pos, found, pend, buf,
                   reaped, events, out, errlog>>

MainReport ==
    /\ mpc = "m_print"
    /\ errlog' = [errlog EXCEPT ![0] = Append(@, "FailedToCreateProcess")]
    /\ mpc' = "m_release"
    /\ UNCHANGED <<inputs, posts, tempvars, nforks, mi, mj, status, wpc, pos, found, pend, buf,
                   semaphore, holds, reaped, events, out>>

MainRelease ==
    /\ mpc = "m_release"
    /\ semaphore' = [semaphore EXCEPT ![SemOf(0)] = @ + 1]
    /\ holds' = [holds EXCEPT ![0] = FALSE]
    /\ mi' = mi + 1
    /\ mpc' = AfterFork
    /\ UNCHANGED <<inputs, posts, tempvars, nforks, mj, status, wpc, pos, found, pend, buf, reaped,
                   events, out, errlog>>

\* children that have terminated and are not yet collected; children at all
Zombies == {w \in Workers : wpc[w] \in {"exited", "aborted"} /\ w \notin reaped}
Children == {w \in Workers : wpc[w] # "nofork" /\ wpc[w] # "unborn" /\ w \notin reaped}

\* myfind.cpp: one sem_wait per filename
MainSemWait ==
    /\ mpc = "wait"
    /\ JoinKind(variant) = "sem_wait"
    /\ mj < N
    /\ semaphore[SemOf(0)] > 0
    /\ semaphore' = [semaphore EXCEPT ![SemOf(0)] = @ - 1]
    /\ mj' = mj + 1
    /\ UNCHANGED <<inputs, posts, tempvars, nforks, mpc, mi, status, wpc, pos, found, pend, buf,
                   holds, reaped, events, out, errlog>>

\* part_003: one waitpid(-1) per filename; it collects a terminated child,
\* blocks while children run, and fails at once when there is no child
MainWaitPid ==
    /\ mpc = "wait"
    /\ JoinKind(variant) = "waitpid"
    /\ mj < N
    /\ \/ \E w \in Zombies : reaped' = reaped \cup {w}
       \/ Children = {} /\ UNCHANGED reaped
    /\ mj' = mj + 1
    /\ UNCHANGED <<inputs, posts, tempvars, nforks, mpc, mi, status, wpc, pos, found, pend, buf,
                   semaphore, holds, events, out, errlog>>

\* part_001: while (wait(NULL) > 0);
MainWait ==
    /\ mpc = "wait"
    /\ JoinKind(variant) = "wait"
    /\ \E w \in Zombies : reaped' = reaped \cup {w}
    /\ UNCHANGED <<inputs, posts, tempvars, nforks, mainvars, wpc, pos, found, pend, buf, semaphore,
                   holds, events, out, errlog>>

\* the end of the wait loop.  JoinDoneNoWait is a wait loop that is left at
\* once, while children still run.
JoinDoneNoWait ==
    CASE JoinKind(variant) = "wait" -> TRUE
      [] OTHER -> mj = N
JoinDone ==
    CASE JoinKind(variant) = "wait" -> Children = {}
      [] OTHER -> mj = N

\* part_003, first program: behind the wait loop main copies the file of
\* every child it forked to std::cout (or reports that it cannot read it) and
\* removes the file
CopyTemp ==
    /\ WritesTempFile(variant)
    /\ mpc = "copy" \/ (mpc = "wait" /\ JoinDone)
    /\ mk <= Len(tempFiles)
    /\ LET w == tempFiles[mk]
           r == StdioPut(buf[0], tmp[w].data, ttyOut, FALSE)
       IN  /\ IF tmp[w].exists
              THEN /\ buf' = [buf EXCEPT ![0] = r.buf]
                   /\ out' = out \o r.written
                   /\ UNCHANGED errlog
              ELSE /\ errlog' = [errlog EXCEPT ![0] = Append(@, "UnableToReadTemporaryFile")]
                   /\ UNCHANGED <<buf, out>>
           /\ tmp' = [tmp EXCEPT ![w] = NoFile]
    /\ mk' = mk + 1
    /\ mpc' = "copy"
    /\ UNCHANGED <<inputs, posts, tempFiles, nforks, mi, mj, status, wpc, pos, found,
                   pend, semaphore, holds, reaped, events>>

\* the end of main: return 0, which flushes what main left in stdout
MainReturn ==
    /\ IF WritesTempFile(variant)
       THEN mpc \in {"wait", "copy"} /\ mk > Len(tempFiles)
       ELSE mpc = "wait"
    /\ JoinDone
    /\ mpc' = "returned"
    /\ status' = EXIT_SUCCESS
    /\ out' = out \o buf[0]
    /\ buf' = [buf EXCEPT ![0] = <<>>]
    /\ UNCHANGED <<inputs, posts, tempvars, nforks, mi, mj, wpc, pos, found, pend, semaphore,
                   holds, reaped, events, errlog>>

Main == \/ Validate \/ ForkChild \/ ForkFails
        \/ MainAcquire \/ MainReport \/ MainRelease
        \/ MainSemWait \/ MainWaitPid \/ MainWait \/ CopyTemp \/ MainReturn


\* ------------------------------------------------------------------ workers
\* the test of one directory entry against the worker's filename
Matches(v, e, target) ==
    /\ RegularOnly(v) => e.type = "file"
    /\ isMatchingFilename(e.name, target, caseInsensetiveSearch)

EmitStart(v) == IF GuardsOutput(v) THEN "acquire" ELSE "print"
AfterSearch(v) == IF PostsCompletion(v) THEN "post" ELSE "exit"
\* behind a print: the loop goes on after a match; behind "Not found" and
\* behind the catch block the search is over (sem_post stands behind the
\* try block, line 68).  AfterEmitPostInTry has the sem_post inside the try
\* block, where an exception skips it.
AfterEmitPostInTry(v, ev) ==
    IF ev.kind = "Found" THEN "walk"
    ELSE IF ev.kind = "WalkError" THEN "exit"
    ELSE AfterSearch(v)
AfterEmit(v, ev) == IF ev.kind = "Found" THEN "walk" ELSE AfterSearch(v)

\* an exception leaves the loop: the catch block prints it, or, without a
\* try block, std::terminate aborts the process
Thrown(w) ==
    IF CatchesWalkError(variant)
    THEN /\ pend' = [pend EXCEPT ![w] = WalkErrorEvent(searchPath)]
         /\ wpc' = [wpc EXCEPT ![w] = EmitStart(variant)]
    ELSE /\ wpc' = [wpc EXCEPT ![w] = "aborted"]
         /\ UNCHANGED pend

\* one step of the range-for over the directory iterator, and what follows
\* the loop (if (!found) ...)
WalkStep(w) ==
    /\ w \in Workers
    /\ wpc[w] = "walk"
    /\ LET wk == Walk(tree, recursiveSearchEnabled)
       IN  IF ~rootValid
           THEN Thrown(w) /\ UNCHANGED pos
           ELSE IF pos[w] < Len(wk.items)
           THEN LET i == wk.items[pos[w] + 1]
                IN  /\ pos' = [pos EXCEPT ![w] = @ + 1]
                    /\ IF Matches(variant, tree[i], filenames[w])
                       THEN /\ pend' = [pend EXCEPT ![w] = FoundEvent(EntryPath(tree, i))]
                            /\ wpc' = [wpc EXCEPT ![w] = EmitStart(variant)]
                       ELSE UNCHANGED <<pend, wpc>>
           ELSE IF wk.throws
           THEN Thrown(w) /\ UNCHANGED pos
           ELSE IF ~found[w] /\ EmitsNotFound(variant)
           THEN /\ pend' = [pend EXCEPT ![w] = NotFoundEvent(searchPath)]
                /\ wpc' = [wpc EXCEPT ![w] = EmitStart(variant)]
                /\ UNCHANGED pos
           ELSE /\ wpc' = [wpc EXCEPT ![w] = AfterSearch(variant)]
                /\ UNCHANGED <<pos, pend>>
    /\ UNCHANGED <<inputs, posts, tempvars, nforks, mainvars, found, buf, semaphore, holds, reaped,
                   events, out, errlog>>

\* part_003, first program: std::ofstream outFile(outputFile) at the start of
\* searchForFile; when the file cannot be created the child reports it and
\* returns
OpenOutput(w) ==
    /\ w \in Workers
    /\ wpc[w] = "open"
    /\ IF tmpWritable
       THEN /\ tmp' = [tmp EXCEPT ![w] = FileWith(<<>>)]
            /\ wpc' = [wpc EXCEPT ![w] = "walk"]
            /\ UNCHANGED errlog
       ELSE /\ errlog' = [errlog EXCEPT ![w] = Append(@, "UnableToCreateOutputFile")]
            /\ wpc' = [wpc EXCEPT ![w] = "exit"]
            /\ UNCHANGED tmp
    /\ UNCHANGED <<inputs, posts, tempFiles, mk, nforks, mainvars, pos, found, pend,
                   buf, semaphore, holds, reaped, events, out>>

\* part_003: sem_wait(&semaphore) in front of a print
Acquire(w) ==
    /\ w \in Workers
    /\ wpc[w] = "acquire"
    /\ semaphore[SemOf(w)] > 0
    /\ semaphore' = [semaphore EXCEPT ![SemOf(w)] = @ - 1]
    /\ holds' = [holds EXCEPT ![w] = TRUE]
    /\ wpc' = [wpc EXCEPT ![w] = "print"]
    /\ UNCHANGED <<inputs, posts, tempvars, nforks, mainvars, pos, found, pend, buf, reaped, events,
                   out, errlog>>

\* fs::absolute(...) in the operands of a print throws
RenderingThrows(w) ==
    /\ pend[w].kind \in {"Found", "NotFound"}
    /\ PrintsAbsolute(variant)
    /\ AbsoluteThrows(pend[w].path)

\* std::cout << getpid() << ": " << filename << ": Not found in "
\*           << fs::absolute(directory) << "\n" when fs::absolute throws: the
\* operands in front of it have been written (C++17 evaluates them in
\* order), the newline has not, and control enters the catch block; in
\* part_003 that is between sem_wait and sem_post
AbsoluteFails(w) ==
    /\ w \in Workers
    /\ wpc[w] = "print"
    /\ RenderingThrows(w)
    /\ LET part == PartialEvent(pend[w])
           toks == LineTokens(w, Len(events[w]) + 1,
                              Len(Render(variant, w, filenames[w], part)))
           r == StdioPut(buf[w], toks, FALSE, FALSE)
       IN  /\ events' = [events EXCEPT ![w] = Append(@, part)]
           /\ IF WritesTempFile(variant)
              THEN /\ tmp' = [tmp EXCEPT ![w] = FileWith(@.data \o toks)]
                   /\ UNCHANGED <<buf, out>>
              ELSE /\ buf' = [buf EXCEPT ![w] = r.buf]
                   /\ out' = out \o r.written
                   /\ UNCHANGED tmp
    /\ pend' = [pend EXCEPT ![w] = WalkErrorEvent(searchPath)]
    /\ wpc' = [wpc EXCEPT ![w] = EmitStart(variant)]
    /\ UNCHANGED <<inputs, posts, tempFiles, mk, nforks, mainvars, pos, found,
                   semaphore, holds, reaped, errlog>>

\* std::cout << getpid() << ": " << filename << ... << "\n" for a match or
\* for "Not found"; std::cerr << "Error accessing ..." in the catch block.
\* std::cerr is tied to std::cout: a write to it first flushes stdout.
\* The first program of part_003 writes all three to outFile instead.
PrintLine(w) ==
    /\ w \in Workers
    /\ wpc[w] = "print"
    /\ ~RenderingThrows(w)
    /\ events' = [events EXCEPT ![w] = Append(@, pend[w])]
    /\ LET line == Render(variant, w, filenames[w], pend[w])
           toks == LineTokens(w, Len(events[w]) + 1, Len(line))
           r == StdioPut(buf[w], toks, ttyOut, FlushesEachLine(variant))
       IN  IF WritesTempFile(variant)
           THEN /\ tmp' = [tmp EXCEPT ![w] = FileWith(@.data \o toks)]
                /\ found' = [found EXCEPT ![w] = @ \/ pend[w].kind = "Found"]
                /\ UNCHANGED <<buf, out, errlog>>
           ELSE IF pend[w].kind = "WalkError"
           THEN /\ errlog' = [errlog EXCEPT ![w] = Append(@, "ErrorAccessing")]
                /\ out' = out \o buf[w]
                /\ buf' = [buf EXCEPT ![w] = <<>>]
                /\ UNCHANGED <<found, tmp>>
           ELSE /\ buf' = [buf EXCEPT ![w] = r.buf]
                /\ out' = out \o r.written
                /\ found' = [found EXCEPT ![w] = @ \/ pend[w].kind = "Found"]
                /\ UNCHANGED <<errlog, tmp>>
    /\ IF GuardsOutput(variant)
       THEN /\ wpc' = [wpc EXCEPT ![w] = "release"]
            /\ UNCHANGED pend
       ELSE /\ wpc' = [wpc EXCEPT ![w] = AfterEmit(variant, pend[w])]
            /\ pend' = [pend EXCEPT ![w] = NoEvent]
    /\ UNCHANGED <<inputs, posts, tempFiles, mk, nforks, mainvars, pos, semaphore, holds,
                   reaped>>

\* part_003: sem_post(&semaphore) behind a print
Release(w) ==
    /\ w \in Workers
    /\ wpc[w] = "release"
    /\ semaphore' = [semaphore EXCEPT ![SemOf(w)] = @ + 1]
    /\ holds' = [holds EXCEPT ![w] = FALSE]
    /\ wpc' = [wpc EXCEPT ![w] = AfterEmit(variant, pend[w])]
    /\ pend' = [pend EXCEPT ![w] = NoEvent]
    /\ UNCHANGED <<inputs, posts, tempvars, nforks, mainvars, pos, found, buf, reaped, events, out,
                   errlog>>

\* myfind.cpp: sem_post(&semaphore) at the end of searchForFile
Post(w) ==
    /\ w \in Workers
    /\ wpc[w] = "post"
    /\ semaphore' = [semaphore EXCEPT ![SemOf(w)] = @ + 1]
    /\ posts' = [posts EXCEPT ![w] = @ + 1]
    /\ wpc' = [wpc EXCEPT ![w] = "exit"]
    /\ UNCHANGED <<inputs, tempvars, nforks, mainvars, pos, found, pend, buf, holds, reaped,
                   events, out, errlog>>

\* the statement behind searchForFile in the child, inside the body of the
\* range-for over filenames: _exit(0), return 0 or exit(0) ends the process
\* there (return 0 and exit(0) flush stdout, _exit(0) does not); a child
\* without it goes on with the next iteration of main's loop
Exit(w) ==
    /\ w \in Workers
    /\ wpc[w] = "exit"
    /\ IF ChildLeaves(variant)
       THEN /\ out' = IF ExitFlushes(variant) THEN out \o buf[w] ELSE out
            /\ buf' = [buf EXCEPT ![w] = <<>>]
            /\ wpc' = [wpc EXCEPT ![w] = "exited"]
            /\ UNCHANGED nforks
       ELSE /\ wpc' = [wpc EXCEPT ![w] = "spawn"]
            /\ nforks' = IF w < N THEN [nforks EXCEPT ![w + 1] = @ + 1] ELSE nforks
            /\ UNCHANGED <<out, buf>>
    /\ UNCHANGED <<inputs, posts, tempvars, mainvars, pos, found, pend, semaphore,
                   holds, reaped, events, errlog>>

Worker(w) == \/ OpenOutput(w) \/ WalkStep(w) \/ Acquire(w) \/ PrintLine(w)
             \/ AbsoluteFails(w)
             \/ Release(w) \/ Post(w) \/ Exit(w)

Next == Main \/ \E w \in 1..MaxTargets : Worker(w)

Spec == Init /\ [][Next]_vars

\* every process that can take a step is scheduled again
SpecMatch == InitMatch /\ [][Next]_vars

FairSpec == Spec /\ WF_vars(Main) /\ \A w \in 1..MaxTargets : WF_vars(Worker(w))

TypeOK ==
    /\ mpc \in {"validate", "spawn", "m_acquire", "m_print", "m_release",
                "wait", "copy", "returned"}
    /\ \A w \in Workers : wpc[w] \in {"unborn", "nofork", "open", "walk", "acquire",
                                      "print", "release", "post", "exit",
                                      "exited", "aborted", "spawn"}
    /\ \A p \in Procs : semaphore[p] >= 0 /\ Len(buf[p]) <= BufSize
    /\ WellFormed(tree)
    /\ mi \in 1..(N + 1) /\ mj \in 0..N

\* ---------------------------------------------------- vocabulary of the claims
Started(w) == wpc[w] \notin {"unborn", "nofork"}
Terminated(w) == wpc[w] \in {"exited", "aborted"}
SearchEnded(w) == wpc[w] \in {"post", "exit", "exited", "aborted"}
ForkFailed == \E w \in Workers : wpc[w] = "nofork"
KindCount(w, k) == Cardinality({n \in 1..Len(events[w]) : events[w][n].kind = k})
HasLine(ev) == ev.kind \in {"Found", "NotFound"}
LineLenOf(w, n) == Len(Render(variant, w, filenames[w], events[w][n]))
IsLineEnd(t) == t[3] = LineLenOf(t[1], t[2])

\* the tokens a worker's events amount to, in the order of emission
RECURSIVE LinesFrom(_, _)
LinesFrom(w, n) ==
    IF n > Len(events[w]) THEN <<>>
    ELSE (IF HasLine(events[w][n]) THEN LineTokens(w, n, LineLenOf(w, n)) ELSE <<>>)
         \o LinesFrom(w, n + 1)

OutOf(w) == SelectSeq(out, LAMBDA t : t[1] = w)

\* a worker is about to write to the stream that stdout refers to
WritesStream(w) ==
    \/ wpc[w] = "print" /\ HasLine(pend[w])
    \/ wpc[w] = "exit" /\ ExitFlushes(variant) /\ buf[w] # <<>>

\* the walk the design asks for: a directory that cannot be read is left out
\* and the traversal goes on with what follows it
RECURSIVE TolerantFrom(_, _, _, _)
TolerantFrom(t, i, skip, acc) ==
    IF i > Len(t) THEN acc
    ELSE IF skip > 0 /\ t[i].depth > skip THEN TolerantFrom(t, i + 1, skip, acc)
    ELSE IF t[i].type = "dir" /\ t[i].access # "ok"
         THEN TolerantFrom(t, i + 1, t[i].depth, Append(acc, i))
    ELSE TolerantFrom(t, i + 1, 0, Append(acc, i))

TolerantWalk(t, rec) == IF rec THEN TolerantFrom(t, 1, 0, <<>>) ELSE FlatWalk(t)

FoundPaths(w) == {events[w][n].path : n \in {m \in 1..Len(events[w]) : events[w][m].kind = "Found"}}

\* ---------------------------------------------------------------------- C1
\* C1: line atomicity.  In the stream every rendered line is contiguous: a
\* token that is not the first of its line directly follows the token before
\* it of the same line, and a line starts only at the start of the stream or
\* right behind the last token of another line.
C1_LineAtomicity ==
    variant \in {"myfind", "guarded"} =>
        \A i \in 1..Len(out) :
            /\ out[i][3] > 1 =>
                   i > 1 /\ out[i-1] = <<out[i][1], out[i][2], out[i][3] - 1>>
            /\ (out[i][3] = 1 /\ i > 1) => IsLineEnd(out[i-1])

\* ---------------------------------------------------------------------- C2
\* C2: mutual exclusion on the sink.  A process that writes to the shared
\* stream holds the guard, and at most one process holds the guard.
C2_MutualExclusion ==
    variant \in {"myfind", "guarded"} =>
        /\ \A w \in Workers : WritesStream(w) => holds[w]
        /\ Cardinality({p \in Procs : holds[p]}) <= 1

\* ---------------------------------------------------------------------- C3
\* C3: fan-in terminates.  With a valid root and a non-empty list of targets
\* whose workers all started, once every worker has finished main leaves the
\* wait loop and returns.
AllWorkersDone ==
    /\ variant = "myfind" /\ rootValid /\ N >= 1
    /\ \A w \in Workers : wpc[w] = "exited"

C3_FanInTerminates == AllWorkersDone ~> (mpc = "returned")

C5_StartFailureTolerated ==
    (variant = "myfind" /\ ForkFailed)
        ~> (/\ mpc = "returned"
            /\ \A w \in Workers : wpc[w] \in {"nofork", "exited"})

\* ---------------------------------------------------------------------- C6
\* C6: per-task result.  A worker of myfind.cpp that has terminated has
\* emitted at least one Found and no NotFound, or no Found and exactly one
\* NotFound.
C6_PerTaskResult ==
    \A w \in Workers :
        (variant = "myfind" /\ Terminated(w)) =>
            \/ KindCount(w, "Found") >= 1 /\ KindCount(w, "NotFound") = 0
            \/ KindCount(w, "Found") = 0 /\ KindCount(w, "NotFound") = 1

\* ---------------------------------------------------------------------- C7
\* C7: no event is lost, duplicated or reordered.  When main has returned,
\* the characters of a terminated worker in the stream are exactly the lines
\* of its Found and NotFound events, once each and in the order of emission,
\* and a NotFound is the worker's last line.
C7_NoEventLost ==
    mpc = "returned" =>
        \A w \in Workers : Terminated(w) =>
            /\ OutOf(w) = LinesFrom(w, 1)
            /\ \A n \in 1..Len(events[w]) :
                   events[w][n].kind = "NotFound" =>
                       \A m \in (n+1)..Len(events[w]) : ~HasLine(events[w][m])

\* ---------------------------------------------------------------------- C8
\* C8: a walk error does not end the search.  A worker of myfind.cpp whose
\* search has ended after a WalkError has emitted Found for every matching
\* entry of the remaining traversal, and NotFound if it emitted no Found.
C8_WalkErrorContinues ==
    \A w \in Workers :
        (variant = "myfind" /\ SearchEnded(w) /\ KindCount(w, "WalkError") >= 1) =>
            LET rest == TolerantWalk(tree, recursiveSearchEnabled)
                hits == {EntryPath(tree, rest[k]) : k \in
                            {j \in 1..Len(rest) :
                                Matches(variant, tree[rest[j]], filenames[w])}}
            IN  /\ FoundPaths(w) = hits
                /\ KindCount(w, "Found") = 0 => KindCount(w, "NotFound") = 1

\* ---------------------------------------------------------------------- C9
\* C9: an invalid root short-circuits the run.  With a root that does not
\* exist or is no directory no worker is started, nothing is written to the
\* result stream, and main returns the failure status.
C9_InvalidRoot ==
    ~rootValid =>
        /\ \A w \in Workers : ~Started(w)
        /\ out = <<>>
        /\ mpc = "returned" => status = EXIT_FAILURE

\* --------------------------------------------------------------------- C10
\* C10: the exit status reflects a failed fork.  With a valid root main
\* returns the failure status when a worker failed to start, and success
\* when every worker started.
C10_ExitStatus ==
    (variant \in {"myfind", "guarded"} /\ mpc = "returned" /\ rootValid) =>
        status = (IF ForkFailed THEN EXIT_FAILURE ELSE EXIT_SUCCESS)

\* --------------------------------------------------------------------- C11
\* the entries within the depth that the recursion flag allows
InScope(i) == recursiveSearchEnabled \/ tree[i].depth = 1
\* the entries in scope whose name equals the worker's filename under the
\* matcher in force
NamedLike(w) ==
    {i \in 1..Len(tree) :
        InScope(i) /\ isMatchingFilename(tree[i].name, filenames[w],
                                         caseInsensetiveSearch)}

\* C11: only regular files match.  Every Found event of a worker names an
\* entry of the tree whose type is regular file, and an entry of another type
\* that is named like the target does not keep the worker from NotFound:
\* a worker whose traversal completed with no regular file named like the
\* target has emitted NotFound.
C11_OnlyRegularFiles ==
    \A w \in Workers :
        /\ \A n \in 1..Len(events[w]) :
               events[w][n].kind = "Found" =>
                   \E i \in 1..Len(tree) :
                       /\ EntryPath(tree, i) = events[w][n].path
                       /\ tree[i].type = "file"
        /\ (/\ variant = "myfind" /\ SearchEnded(w)
            /\ KindCount(w, "WalkError") = 0
            /\ \A i \in NamedLike(w) : tree[i].type # "file")
               => KindCount(w, "NotFound") = 1

\* --------------------------------------------------------------------- C12
\* C12: a present target is found.  A worker of myfind.cpp whose search has
\* ended, with a regular file named like its target within the depth that the
\* recursion flag allows, has emitted at least one Found and no NotFound.
C12_PresentFound ==
    \A w \in Workers :
        (/\ variant = "myfind" /\ SearchEnded(w)
         /\ \E i \in NamedLike(w) : tree[i].type = "file")
            => KindCount(w, "Found") >= 1 /\ KindCount(w, "NotFound") = 0

\* --------------------------------------------------------------------- C13
\* C13: an absent target is reported once.  A worker whose search has ended,
\* with no entry in scope named like its target, has emitted no Found and
\* exactly one NotFound; that NotFound names the searched root and is the
\* worker's last event.
C13_AbsentReportedOnce ==
    \A w \in Workers :
        (/\ variant \in {"myfind", "plain"} /\ rootValid /\ SearchEnded(w)
         /\ NamedLike(w) = {})
            => /\ KindCount(w, "Found") = 0
               /\ KindCount(w, "NotFound") = 1
               /\ events[w][Len(events[w])] = NotFoundEvent(searchPath)

\* --------------------------------------------------------------------- C14
\* C14: the result stream and the diagnostic stream are never merged.  Every
\* character in the result stream belongs to the line of a Found or NotFound
\* event; the line of a WalkError is never part of it.
C14_ChannelsSeparate ==
    \A i \in 1..Len(out) : HasLine(events[out[i][1]][out[i][2]])

\* --------------------------------------------------------------------- C15
\* main is behind the loop that forks (the run was not ended by an invalid
\* search path)
ForkLoopDone ==
    \/ mpc \in {"wait", "copy"}
    \/ mpc = "returned" /\ ~(ValidatesRoot(variant) /\ ~rootValid)
\* main has waited for a worker
HasWaited == mj > 0 \/ reaped # {}

\* C15: the shape of the fan-out.  main calls fork() at most once for an
\* element of filenames and in the order of the list; behind the loop it has
\* called it exactly once for every element, so a name listed twice has two
\* workers of its own; every started worker comes from the call for its
\* element; and main has waited for no worker before all calls were made.
C15_FanOutShape ==
    /\ \A w \in Workers :
           /\ nforks[w] <= 1
           /\ nforks[w] = 1 => \A v \in 1..w : nforks[v] = 1
           /\ (Started(w) \/ wpc[w] = "nofork") <=> nforks[w] = 1
    /\ ForkLoopDone => \A w \in Workers : nforks[w] = 1
    /\ HasWaited => \A w \in Workers : nforks[w] = 1

\* two workers for a name that is listed twice, and main already waiting
C15_Witness ==
    /\ variant = "myfind" /\ N = 2 /\ filenames[1] = filenames[2]
    /\ Started(1) /\ Started(2) /\ events[1] # <<>> /\ events[2] # <<>>
    /\ mpc = "wait" /\ mj > 0

\* --------------------------------------------------------------------- C16
\* C16: streaming emission.  When a worker examines the next entry, the line
\* of every Found event it has emitted is in the result stream: nothing is
\* held back until the walk of the worker, or every worker, is over.
C16_StreamingEmission ==
    \A w \in Workers :
        (variant \in {"myfind", "tempfile"} /\ wpc[w] = "walk")
            => OutOf(w) = LinesFrom(w, 1)

\* --------------------------------------------------------------------- C17
\* the paths the flat search of the same tree for the same target emits:
\* fs::directory_iterator yields the direct children and does not throw
FlatFound(w) ==
    LET fw == FlatWalk(tree)
    IN  {EntryPath(tree, fw[k]) : k \in
            {j \in 1..Len(fw) : Matches(variant, tree[fw[j]], filenames[w])}}
DirectChild(p) == Len(p) = Len(searchPath) + 1 /\ SubSeq(p, 1, Len(searchPath)) = searchPath

\* C17: flat versus recursive scope.  A worker of myfind.cpp in flat mode
\* emits Found only for direct children of the root (and, its search ended,
\* for exactly the matching ones); a worker in recursive mode whose search
\* has ended has emitted Found for every path the flat search emits.
C17_FlatVersusRecursive ==
    \A w \in Workers :
        (variant = "myfind" /\ rootValid) =>
            /\ ~recursiveSearchEnabled =>
                   /\ \A p \in FoundPaths(w) : DirectChild(p)
                   /\ SearchEnded(w) => FoundPaths(w) = FlatFound(w)
            /\ (recursiveSearchEnabled /\ SearchEnded(w)) =>
                   FlatFound(w) \subseteq FoundPaths(w)

\* --------------------------------------------------------------------- C18
\* the line of the rendering format: the task id, ": ", the target, then
\* ": " and the absolute path, or ": Not found in " and the root directory,
\* with nothing around the path
FormatLine(w, target, ev) ==
    <<ToString(w)>> \o ColonSpace \o target
        \o (IF ev.kind = "Found" THEN ColonSpace ELSE NotFoundIn)
        \o PathText(Absolute(ev.path)) \o <<"\n">>

\* C18: the rendering format.  The line a worker of myfind.cpp writes for a
\* Found or NotFound event is exactly the line of the rendering format.
C18_RenderingFormat ==
    \A w \in Workers : \A n \in 1..Len(events[w]) :
        (variant = "myfind" /\ HasLine(events[w][n])) =>
            Render(variant, w, filenames[w], events[w][n])
                = FormatLine(w, filenames[w], events[w][n])

\* --------------------------------------------------------------------- C20
\* C20: no persisted state.  In every state of a run, and after main has
\* returned, no file exists that did not exist before the run.
C20_NoFilesCreated ==
    \A w \in Workers : ~tmp[w].exists

\* --------------------------------------------------------------------- C19
\* the matcher policy: names of the same length whose characters are equal
\* one by one; without regard to case, two characters are also equal when
\* they are the upper and the lower case of one letter (any other character
\* is equal to itself only)
SameLetter(c, d) == \E i \in 1..26 : {c, d} = {Upper[i], Lower[i]}
PolicyMatches(candidate, target, ci) ==
    /\ Len(candidate) = Len(target)
    /\ \A i \in 1..Len(candidate) :
           \/ candidate[i] = target[i]
           \/ ci /\ SameLetter(candidate[i], target[i])

\* C19: the matcher policy.  Against a directory that holds one regular
\* file, a worker emits Found only if the file's name and its filename match
\* under the policy, and a worker of myfind.cpp whose search has ended has
\* emitted Found if they do; "Report.TXT" is found for "report.txt" exactly
\* when the search disregards case.
C19_MatcherPolicy ==
    \A w \in Workers :
        LET policy == /\ tree # <<>>
                      /\ PolicyMatches(tree[1].name, filenames[w],
                                       caseInsensetiveSearch)
        IN  /\ KindCount(w, "Found") >= 1 => policy
            /\ (variant = "myfind" /\ SearchEnded(w)) =>
                   /\ policy => KindCount(w, "Found") = 1
                   /\ (tree # <<>> /\ tree[1].name = ReportUpper
                                   /\ filenames[w] = ReportLower) =>
                          (KindCount(w, "Found") = 1 <=> caseInsensetiveSearch)

\* "Report.TXT" found for "report.txt" by a search that disregards case
C19_Witness ==
    /\ variant = "myfind" /\ caseInsensetiveSearch
    /\ tree # <<>> /\ tree[1].name = ReportUpper /\ filenames = <<ReportLower>>
    /\ wpc[1] = "exited" /\ KindCount(1, "Found") = 1

\* --------------------------------------------------------------------- C21
\* C21: the guard is released on every path.  In the second program of
\* part_003 a worker that is about to call sem_wait, that is back in its
\* walk or that has ended its search does not hold the guard: every sem_wait
\* has been followed by the sem_post of the same process, also when the
\* rendering of the line threw between the two.
C21_GuardBalanced ==
    variant = "guarded" =>
        \A w \in Workers :
            wpc[w] \in {"walk", "acquire", "exit", "exited"} => ~holds[w]

\* --------------------------------------------------------------------- C22
\* the number of calls of fork() in the run
RECURSIVE ForkCalls(_)
ForkCalls(w) == IF w = 0 THEN 0 ELSE nforks[w] + ForkCalls(w - 1)

\* C22: workers never dispatch.  In myfind.cpp and in part_002 no worker is
\* ever in main's loop over filenames: a worker whose search has ended, with
\* or without a caught exception, is at its exit or has terminated, and
\* fork() has been called at most once for every filename, at most
\* Len(filenames) times in all, by main alone.
C22_WorkersNeverDispatch ==
    variant \in {"myfind", "part_002"} =>
        /\ \A w \in Workers :
               /\ wpc[w] # "spawn"
               /\ (posts[w] > 0) => wpc[w] \in {"exit", "exited"}
               /\ nforks[w] = (IF w < mi \/ (w = mi /\ wpc[w] = "nofork") THEN 1 ELSE 0)
        /\ ForkCalls(N) <= N

\* two workers have terminated, one of them through the catch block, and
\* fork() was called twice
C22_Witness ==
    /\ variant \in {"myfind", "part_002"} /\ N = 2
    /\ \A w \in Workers : wpc[w] = "exited"
    /\ \E w \in Workers : KindCount(w, "WalkError") = 1
    /\ ForkCalls(N) = 2

\* --------------------------------------------------------------------- C23
\* every worker that was started has terminated, and no fork is pending
WorkersOver == \A w \in Workers : wpc[w] \in {"nofork", "exited", "aborted"}

\* C23: the completion semaphore of myfind.cpp and the waitpid join of
\* part_002 are the same to main.  In both programs main returns only after
\* every started worker has terminated, and in both main is not blocked in
\* its wait loop once every worker is over, whatever the outcomes of fork()
\* were: it can take its next step towards the return.
C23_JoinsEquivalent ==
    variant \in {"myfind", "part_002"} =>
        /\ mpc = "returned" => \A w \in Workers : Started(w) => Terminated(w)
        /\ (mpc = "wait" /\ WorkersOver) => ENABLED Main

\* --------------------------------------------------------------------- C24
\* everything a worker has written, line after line
RECURSIVE WrittenFrom(_, _)
WrittenFrom(w, n) ==
    IF n > Len(events[w]) THEN <<>>
    ELSE LineTokens(w, n, LineLenOf(w, n)) \o WrittenFrom(w, n + 1)

\* the contents of the first k files of tempFiles, one behind the other
RECURSIVE BlocksUpTo(_)
BlocksUpTo(k) ==
    IF k = 0 THEN <<>> ELSE BlocksUpTo(k - 1) \o WrittenFrom(tempFiles[k], 1)

\* C24: the temp-file variant.  No worker writes to the result stream; main
\* writes to it only when every started worker has terminated; what main has
\* written is the contents of the files it has copied so far, whole and one
\* behind the other in the order of the filenames; a file that main has
\* dealt with is removed, and none is left when main has returned.
C24_TempFileOrder ==
    variant = "tempfile" =>
        /\ \A w \in Workers : buf[w] = <<>>
        /\ (out # <<>> \/ buf[0] # <<>> \/ mk > 1) =>
               \A w \in Workers : Started(w) => Terminated(w)
        /\ out \o buf[0] = BlocksUpTo(mk - 1)
        /\ \A k \in 1..Len(tempFiles) :
               /\ Started(tempFiles[k])
               /\ k > 1 => tempFiles[k - 1] < tempFiles[k]
               /\ k < mk => ~tmp[tempFiles[k]].exists
        /\ ForkLoopDone =>
               {tempFiles[k] : k \in 1..Len(tempFiles)} = {w \in Workers : Started(w)}
        /\ mpc = "returned" => \A w \in Workers : ~tmp[w].exists

\* main has returned after copying the files of two workers, both with lines
C24_Witness ==
    /\ variant = "tempfile" /\ mpc = "returned" /\ N = 2
    /\ \A w \in Workers : Started(w) /\ events[w] # <<>> /\ OutOf(w) # <<>>
    /\ \A w \in Workers : ~tmp[w].exists

\* --------------------------------------------------------------------- C25
\* the number of sem_post calls of the workers 1..w
RECURSIVE PostsUpTo(_)
PostsUpTo(w) == IF w = 0 THEN 0 ELSE posts[w] + PostsUpTo(w - 1)

\* C25: every worker of myfind.cpp posts exactly once.  A worker has called
\* sem_post at most once; it has not called it before its search is over,
\* and it has called it once when it is at its exit or has terminated,
\* whether it found matches, found none or caught an exception; no worker
\* ends in another way.  The semaphore holds what the workers posted: its
\* own post in the worker's copy, or every post less main's sem_waits in
\* the shared counter.
C25_PostsExactlyOnce ==
    variant = "myfind" =>
        /\ \A w \in Workers :
               /\ posts[w] = (IF wpc[w] \in {"exit", "exited"} THEN 1 ELSE 0)
               /\ wpc[w] # "aborted"
               /\ ~semShared => semaphore[w] = posts[w]
        /\ semShared => semaphore[0] + mj = PostsUpTo(N)

\* a worker that caught an exception has posted once and has terminated
C25_Witness ==
    /\ variant = "myfind"
    /\ \E w \in Workers :
           /\ wpc[w] = "exited" /\ posts[w] = 1
           /\ KindCount(w, "WalkError") = 1

====
